---- MODULE Spec2Model ----
(***************************************************************************)
(* tach: the interactive package tree (tach/interactive/packages.py).      *)
(*                                                                         *)
(* A path is a sequence of entry names.  An entry name is an integer:      *)
(*   1..MaxName   a visible name; the integer order is the string order    *)
(*   HiddenName   a name that starts with "."                              *)
(*   PACKAGE_FILE the package marker file, "tach.yml"                      *)
(*   DotName      the path component "." (only in paths given by a caller) *)
(* The file system fs is [listing, files, noperm]: listing maps each       *)
(* directory to the sequence os.listdir returns for it (any order), files  *)
(* is the set of regular files, noperm the directories whose listing       *)
(* raises PermissionError.                                                 *)
(***************************************************************************)
EXTENDS Integers, Sequences, FiniteSets, TLC

\* ------------------------------------------------------------------ bounds
MaxName == 2
MaxEntries == 3
MaxUnreadable == 1
MaxDepth == 2
MaxNodes == 5
MaxFile == 2
MaxOutLen == 2

\* ------------------------------------------------- names, paths, os.path
PACKAGE_FILE == 0
HiddenName == 0 - 1
DotName == 0 - 2
None == 0

VisibleNames == 1..MaxName
EntryNames == VisibleNames \cup {HiddenName, PACKAGE_FILE}

startswith_dot(entry) == entry = HiddenName \/ entry = DotName

join(path, entry) == Append(path, entry)

\* fs.canonical: the absolute, normalised path ("." components removed)
canonical(path) == SelectSeq(path, LAMBDA c : c # DotName)

isdir(f, path) == canonical(path) \in DOMAIN f.listing

isfile(f, path) == canonical(path) \in f.files

ListdirRaises(f, path) == canonical(path) \in f.noperm

listdir(f, path) == f.listing[canonical(path)]

\* str.__lt__ on two paths, component by component
RECURSIVE PathLess(_, _)
PathLess(p, q) ==
    IF q = <<>> THEN FALSE
    ELSE IF p = <<>> THEN TRUE
    ELSE IF Head(p) # Head(q) THEN Head(p) < Head(q)
    ELSE PathLess(Tail(p), Tail(q))

Range(s) == {s[i] : i \in 1..Len(s)}

InsertAt(s, i, e) == SubSeq(s, 1, i - 1) \o <<e>> \o SubSeq(s, i, Len(s))

Put(m, k, v) == [x \in DOMAIN m \cup {k} |-> IF x = k THEN v ELSE m[x]]

Max(a, b) == IF a > b THEN a ELSE b

\* ------------------------------------------------------ the file systems
EmptyFs == [listing |-> (<<>> :> <<>>), files |-> {}, noperm |-> {}]

\* f with one more entry e in directory d, at place i of d's listing
WithEntry(f, d, e, i) ==
    LET p == join(d, e)
        l1 == [f.listing EXCEPT ![d] = InsertAt(@, i, e)]
    IN  IF e = PACKAGE_FILE
        THEN [f EXCEPT !.listing = l1, !.files = @ \cup {p}]
        ELSE [f EXCEPT !.listing = Put(l1, p, <<>>)]

AddEntry(f) ==
    {WithEntry(f, x[1], x[2], x[3]) :
        x \in {y \in (DOMAIN f.listing) \X EntryNames \X (1..(MaxEntries + 1)) :
                  /\ y[2] \notin Range(f.listing[y[1]])
                  /\ y[3] <= Len(f.listing[y[1]]) + 1}}

RECURSIVE FsUpTo(_)
FsUpTo(k) ==
    IF k = 0 THEN {EmptyFs}
    ELSE LET S == FsUpTo(k - 1) IN S \cup UNION {AddEntry(f) : f \in S}

EntryCount(f) == Cardinality(DOMAIN f.listing) - 1 + Cardinality(f.files)

FileSystems ==
    UNION {{[f EXCEPT !.noperm = u] :
               u \in {v \in SUBSET (DOMAIN f.listing) : Cardinality(v) <= MaxUnreadable}} :
           f \in FsUpTo(MaxEntries)}

\* the paths a caller may pass as the root: the top directory, canonical or
\* not, or one of its entries
RootPaths(f) == {<<>>, <<DotName>>} \cup {<<e>> : e \in Range(f.listing[<<>>])}

\* --------------------------------------------------------------- FileNode
FileNode_build_from_path(f, path) ==
    [full_path |-> path,
     is_dir |-> isdir(f, path),
     expanded |-> FALSE,
     is_package |-> isfile(f, join(path, PACKAGE_FILE)),
     parent |-> None,
     children |-> <<>>]

\* --------------------------------------------------------------- FileTree
\* A tree t is [heap, nodes, exc]: heap is the sequence of the FileNode
\* objects in creation order (an object is named by its place in heap, the
\* root is object 1), nodes is the dict from path to object, exc the
\* exception in flight ("none" when there is none).

new_child_m(f, root, entry_path, depth) ==
    [FileNode_build_from_path(f, entry_path) EXCEPT
        !.expanded = (depth >= 0), !.parent = root]

new_child_orphan(f, root, entry_path, depth) ==
    [FileNode_build_from_path(f, entry_path) EXCEPT !.expanded = (depth > 0)]

\* the child object of _build_subtree, before it is appended
new_child(f, root, entry_path, depth) ==
    [FileNode_build_from_path(f, entry_path) EXCEPT
        !.expanded = (depth > 0), !.parent = root]

except_PermissionError_m(t) == t

\* except PermissionError: return
except_PermissionError(t) ==
    IF t.exc = "PermissionError" THEN [t EXCEPT !.exc = "none"] ELSE t

RECURSIVE build_subtree(_, _, _, _)
RECURSIVE BuildEntries(_, _, _, _, _, _)

\* the for loop of _build_subtree from entry i on
BuildEntries(f, t, root, entries, i, depth) ==
    IF i > Len(entries) THEN t
    ELSE
      LET entry == entries[i]
          entry_path == join(t.heap[root].full_path, entry)
      IN  IF startswith_dot(entry) THEN BuildEntries(f, t, root, entries, i + 1, depth)
          ELSE IF ~isdir(f, entry_path) THEN BuildEntries(f, t, root, entries, i + 1, depth)
          ELSE
            LET child_node == new_child(f, root, entry_path, depth)
                id == Len(t.heap) + 1
                t1 == [t EXCEPT
                          !.heap = Append([t.heap EXCEPT ![root].children = Append(@, id)],
                                          child_node),
                          !.nodes = Put(t.nodes, entry_path, id)]
                t2 == IF child_node.is_dir
                      THEN build_subtree(f, t1, id, Max(depth - 1, 0))
                      ELSE t1
            IN  IF t2.exc # "none" THEN t2
                ELSE BuildEntries(f, t2, root, entries, i + 1, depth)

\* the try block of _build_subtree
TryListdir(f, t, root, depth) ==
    IF ListdirRaises(f, t.heap[root].full_path) THEN [t EXCEPT !.exc = "PermissionError"]
    ELSE BuildEntries(f, t, root, listdir(f, t.heap[root].full_path), 1, depth)

build_subtree(f, t, root, depth) ==
    IF ~t.heap[root].is_dir THEN t
    ELSE except_PermissionError(TryListdir(f, t, root, depth))

build_from_path(f, path, depth) ==
    LET root == [FileNode_build_from_path(f, canonical(path)) EXCEPT !.expanded = TRUE]
        tree == [heap |-> <<root>>, nodes |-> (path :> 1), exc |-> "none"]
    IN  build_subtree(f, tree, 1, depth)

expand_path_m(f, t, path) ==
    IF path \notin DOMAIN t.nodes THEN [t EXCEPT !.exc = "NotFound"]
    ELSE build_subtree(f, t, t.nodes[path], 1)

\* FileTree.expand_path; the two TachErrors are told apart as "NotFound" and
\* "NotADirectory"
expand_path(f, t, path) ==
    IF path \notin DOMAIN t.nodes THEN [t EXCEPT !.exc = "NotFound"]
    ELSE IF ~t.heap[t.nodes[path]].is_dir THEN [t EXCEPT !.exc = "NotADirectory"]
    ELSE build_subtree(f, t, t.nodes[path], 1)

\* ------------------------------------------------- sorting and traversal
\* sorted(s, key=full_path, reverse=...): stable in both directions
RECURSIVE InsertSorted(_, _, _, _)
InsertSorted(h, s, x, reverse) ==
    IF s = <<>> THEN <<x>>
    ELSE LET y == s[Len(s)]
             before == IF reverse THEN PathLess(h[y].full_path, h[x].full_path)
                       ELSE PathLess(h[x].full_path, h[y].full_path)
         IN  IF before
             THEN Append(InsertSorted(h, SubSeq(s, 1, Len(s) - 1), x, reverse), y)
             ELSE Append(s, x)

RECURSIVE sorted(_, _, _)
sorted(h, s, reverse) ==
    IF s = <<>> THEN <<>>
    ELSE InsertSorted(h, sorted(h, SubSeq(s, 1, Len(s) - 1), reverse), s[Len(s)], reverse)

RECURSIVE Reverse(_)
Reverse(s) == IF s = <<>> THEN <<>> ELSE Append(Reverse(Tail(s)), Head(s))

extendleft_m(stack, xs) == xs \o stack

\* deque.extendleft: the elements are pushed on the left one by one
extendleft(stack, xs) == Reverse(xs) \o stack

visible_children(h, n) == IF ~h[n].expanded THEN <<>> ELSE h[n].children

\* file_tree_iterator from a given stack: the sequence of yielded objects
RECURSIVE IterateFrom(_, _, _)
IterateFrom(h, stack, visible_only) ==
    IF stack = <<>> THEN <<>>
    ELSE LET node == Head(stack)
             kids == IF visible_only THEN visible_children(h, node) ELSE h[node].children
         IN  <<node>> \o IterateFrom(h, extendleft(Tail(stack), sorted(h, kids, TRUE)),
                                     visible_only)

file_tree_iterator(h, visible_only) == IterateFrom(h, <<1>>, visible_only)

\* ------------------------------------------------- FileNode siblings
\* FileNode.__eq__, generated by @dataclass: the fields compared in order as
\* tuples, an identical object being equal at once.  Two distinct objects
\* with equal scalar fields, the same parent and children lists of the same
\* positive length make Python compare the children, whose parent fields
\* lead back to the same comparison: RecursionError.
FileNode_eq(h, a, b) ==
    IF a = b THEN "eq"
    ELSE IF h[a].full_path # h[b].full_path THEN "ne"
    ELSE IF h[a].is_dir # h[b].is_dir THEN "ne"
    ELSE IF h[a].expanded # h[b].expanded THEN "ne"
    ELSE IF h[a].is_package # h[b].is_package THEN "ne"
    ELSE IF h[a].parent # h[b].parent THEN "RecursionError"
    ELSE IF Len(h[a].children) # Len(h[b].children) THEN "ne"
    ELSE IF h[a].children = <<>> THEN "eq"
    ELSE "RecursionError"

\* list.index(self) from place i on: [err, at]; ValueError is at = 0
RECURSIVE list_index(_, _, _, _)
list_index(h, s, n, i) ==
    IF i > Len(s) THEN [err |-> "none", at |-> 0]
    ELSE LET c == FileNode_eq(h, s[i], n)
         IN  IF c = "eq" THEN [err |-> "none", at |-> i]
             ELSE IF c = "ne" THEN list_index(h, s, n, i + 1)
             ELSE [err |-> c, at |-> 0]

parent_sorted_children_unsorted(h, n) ==
    IF h[n].parent = None THEN <<>>
    ELSE visible_children(h, h[n].parent)

\* None and the empty list are both falsy at the two places that use this
parent_sorted_children(h, n) ==
    IF h[n].parent = None THEN <<>>
    ELSE sorted(h, visible_children(h, h[n].parent), FALSE)

\* prev_sibling and next_sibling return [err, node]; node = None is None
prev_sibling(h, n) ==
    LET psc == parent_sorted_children(h, n)
        my_index == list_index(h, psc, n, 1)
    IN  IF psc = <<>> THEN [err |-> "none", node |-> None]
        ELSE IF my_index.err # "none" THEN [err |-> my_index.err, node |-> None]
        ELSE IF my_index.at = 0 THEN [err |-> "TachError", node |-> None]
        ELSE IF my_index.at = 1 THEN [err |-> "none", node |-> None]
        ELSE [err |-> "none", node |-> psc[my_index.at - 1]]

next_sibling(h, n) ==
    LET psc == parent_sorted_children(h, n)
        my_index == list_index(h, psc, n, 1)
    IN  IF psc = <<>> THEN [err |-> "none", node |-> None]
        ELSE IF my_index.err # "none" THEN [err |-> my_index.err, node |-> None]
        ELSE IF my_index.at = 0 THEN [err |-> "TachError", node |-> None]
        ELSE IF my_index.at = Len(psc) THEN [err |-> "none", node |-> None]
        ELSE [err |-> "none", node |-> psc[my_index.at + 1]]

\* ------------------------------------------------- the key handlers
\* A handler's effect is [err, node, y]: the exception it raises if any, the
\* selected node and cursor_point.y it leaves.

RECURSIVE LastChild(_, _)
LastChild(h, curr_node) ==
    IF h[curr_node].children = <<>> THEN curr_node
    ELSE LET s == sorted(h, h[curr_node].children, FALSE)
         IN  LastChild(h, s[Len(s)])

\* the while loop of up: down to the last visible child
RECURSIVE LastVisible(_, _)
LastVisible(h, curr_node) ==
    IF visible_children(h, curr_node) = <<>> THEN curr_node
    ELSE LET s == sorted(h, visible_children(h, curr_node), FALSE)
         IN  LastVisible(h, s[Len(s)])

up_m(h, sel, y) ==
    LET prev == prev_sibling(h, sel)
    IN  IF prev.err # "none" THEN [err |-> prev.err, node |-> sel, y |-> y]
        ELSE IF prev.node # None
        THEN [err |-> "none", node |-> prev.node, y |-> y - 1]
        ELSE IF h[sel].parent # None
        THEN [err |-> "none", node |-> h[sel].parent, y |-> y - 1]
        ELSE [err |-> "none", node |-> sel, y |-> y]

up(h, sel, y) ==
    LET prev == prev_sibling(h, sel)
    IN  IF prev.err # "none" THEN [err |-> prev.err, node |-> sel, y |-> y]
        ELSE IF prev.node # None
        THEN [err |-> "none", node |-> LastVisible(h, prev.node), y |-> y - 1]
        ELSE IF h[sel].parent # None
        THEN [err |-> "none", node |-> h[sel].parent, y |-> y - 1]
        ELSE [err |-> "none", node |-> sel, y |-> y]

\* the while loop of down: up to the first ancestor with a next sibling
RECURSIVE BubbleUp(_, _, _)
BubbleUp(h, curr_node, next) ==
    IF next.err # "none" THEN next
    ELSE IF next.node # None THEN next
    ELSE IF h[curr_node].parent = None THEN next
    ELSE BubbleUp(h, h[curr_node].parent, next_sibling(h, h[curr_node].parent))

down_unsorted(h, sel, y) ==
    IF visible_children(h, sel) # <<>>
    THEN [err |-> "none", node |-> visible_children(h, sel)[1], y |-> y + 1]
    ELSE IF h[sel].parent = None THEN [err |-> "none", node |-> sel, y |-> y]
    ELSE LET next == BubbleUp(h, sel, next_sibling(h, sel))
         IN  IF next.err # "none" THEN [err |-> next.err, node |-> sel, y |-> y]
             ELSE IF next.node = None THEN [err |-> "none", node |-> sel, y |-> y]
             ELSE [err |-> "none", node |-> next.node, y |-> y + 1]

down_row_kept(h, sel, y) ==
    IF visible_children(h, sel) # <<>>
    THEN [err |-> "none", node |-> sorted(h, visible_children(h, sel), FALSE)[1],
          y |-> y + 1]
    ELSE IF h[sel].parent = None THEN [err |-> "none", node |-> sel, y |-> y]
    ELSE LET next == BubbleUp(h, sel, next_sibling(h, sel))
         IN  IF next.err # "none" THEN [err |-> next.err, node |-> sel, y |-> y]
             ELSE IF next.node = None THEN [err |-> "none", node |-> sel, y |-> y]
             ELSE [err |-> "none", node |-> next.node, y |-> y]

down(h, sel, y) ==
    IF visible_children(h, sel) # <<>>
    THEN [err |-> "none", node |-> sorted(h, visible_children(h, sel), FALSE)[1],
          y |-> y + 1]
    ELSE IF h[sel].parent = None THEN [err |-> "none", node |-> sel, y |-> y]
    ELSE LET next == BubbleUp(h, sel, next_sibling(h, sel))
         IN  IF next.err # "none" THEN [err |-> next.err, node |-> sel, y |-> y]
             ELSE IF next.node = None THEN [err |-> "none", node |-> sel, y |-> y]
             ELSE [err |-> "none", node |-> next.node, y |-> y + 1]

right_children(h, sel) ==
    [i \in 1..Len(h) |->
        IF i = sel \/ h[i].parent = sel THEN [h[i] EXCEPT !.expanded = TRUE] ELSE h[i]]

right(h, sel) == [h EXCEPT ![sel].expanded = TRUE]

left_m(h, sel) ==
    [i \in 1..Len(h) |->
        IF i = sel \/ h[i].parent = sel THEN [h[i] EXCEPT !.expanded = FALSE] ELSE h[i]]

left(h, sel) == [h EXCEPT ![sel].expanded = FALSE]

enter_root(h, sel) == [h EXCEPT ![1].is_package = ~@]

enter(h, sel) == [h EXCEPT ![sel].is_package = ~@]


\* the list comprehension of run
RECURSIVE SelectedPackages(_, _)
SelectedPackages(h, it) ==
    IF it = <<>> THEN <<>>
    ELSE (IF h[Head(it)].is_package THEN <<[full_path |-> h[Head(it)].full_path]>>
          ELSE <<>>) \o SelectedPackages(h, Tail(it))

\* fs.file_to_module_path: the path in the module naming convention
file_to_module_path(path) == [kind |-> "module", parts |-> canonical(path)]

\* SelectedPackage.tags
tags(package) == <<file_to_module_path(package.full_path)>>

\* ------------------------------------------------- filesystem/git_ops.py
\* A str is a sequence of characters: the file names 1..MaxFile and Newline.
\* The outcome of a git command is [err, out].
Newline == 0

GitChars == (1..MaxFile) \cup {Newline}

RECURSIVE StrsUpTo(_)
StrsUpTo(k) ==
    IF k = 0 THEN {<<>>}
    ELSE LET S == StrsUpTo(k - 1)
         IN  S \cup {Append(x, c) : x \in S, c \in GitChars}

GitOutcomes ==
    {[err |-> "none", out |-> x] : x \in StrsUpTo(MaxOutLen)}
        \cup {[err |-> "GitCommandError", out |-> <<>>]}

\* str.splitlines
RECURSIVE splitlines(_)
splitlines(x) ==
    IF x = <<>> THEN <<>>
    ELSE IF \E i \in 1..Len(x) : x[i] = Newline
    THEN LET i == CHOOSE i \in 1..Len(x) :
                     x[i] = Newline /\ \A j \in 1..(i - 1) : x[j] # Newline
         IN  <<SubSeq(x, 1, i - 1)>> \o splitlines(SubSeq(x, i + 1, Len(x)))
    ELSE <<x>>

\* pathlib.Path of a line
Path(line) == [path |-> line]

\* list(map(Path, set(changed_files))): the set in any order
UniquePaths(changed_files) ==
    LET S == Range(changed_files)
    IN  {[i \in 1..Cardinality(S) |-> Path(x[i])] :
            x \in {y \in [1..Cardinality(S) -> S] : Range(y) = S}}

GitIdle ==
    [pc |-> "idle", head |-> "", repo |-> "ok",
     diff |-> [err |-> "none", out |-> <<>>], ls |-> [err |-> "none", out |-> <<>>],
     changed_files |-> <<>>, ret |-> <<>>, raised |-> "none"]

VARIABLES fs, arg, heap, nodes, op, selected_node, cursor_y, exit_code, pc, result, git

vars == <<fs, arg, heap, nodes, op, selected_node, cursor_y, exit_code, pc, result, git>>

uivars == <<selected_node, cursor_y, exit_code, pc, result>>

NoOp == [name |-> "none", path |-> <<>>, exc |-> "none"]

\* run returning None
NoResult == [is_none |-> TRUE, packages |-> <<>>]

run_result_visible(h, code) ==
    IF code = "QUIT_SAVE"
    THEN [is_none |-> FALSE, packages |-> SelectedPackages(h, file_tree_iterator(h, TRUE))]
    ELSE NoResult

run_result_always(h, code) ==
    [is_none |-> FALSE, packages |-> SelectedPackages(h, file_tree_iterator(h, FALSE))]

\* what run returns once app.run() has returned
run_result(h, code) ==
    IF code = "QUIT_SAVE"
    THEN [is_none |-> FALSE, packages |-> SelectedPackages(h, file_tree_iterator(h, FALSE))]
    ELSE NoResult

\* ------------------------------------------------------- FileTree as an API
InitTree ==
    /\ fs \in FileSystems
    /\ arg \in [path : RootPaths(fs), depth : 0..MaxDepth]
    /\ heap = <<>>
    /\ nodes = <<>>
    /\ op = NoOp
    /\ selected_node = None
    /\ cursor_y = 0
    /\ exit_code = "QUIT_NOSAVE"
    /\ pc = "tree"
    /\ result = NoResult
    /\ git = GitIdle

Build ==
    /\ heap = <<>>
    /\ LET t == build_from_path(fs, arg.path, arg.depth)
       IN  /\ heap' = t.heap
           /\ nodes' = t.nodes
           /\ op' = [name |-> "build_from_path", path |-> arg.path, exc |-> t.exc]
    /\ UNCHANGED <<git, fs, arg, uivars>>

\* the paths a caller may pass to expand_path
CallPaths == DOMAIN nodes \cup DOMAIN fs.listing \cup fs.files \cup {<<DotName>>}

ExpandPath ==
    /\ heap # <<>>
    /\ \E path \in CallPaths :
         LET t == expand_path(fs, [heap |-> heap, nodes |-> nodes, exc |-> "none"], path)
         IN  /\ Len(t.heap) <= MaxNodes
             /\ heap' = t.heap
             /\ nodes' = t.nodes
             /\ op' = [name |-> "expand_path", path |-> path, exc |-> t.exc]
    /\ UNCHANGED <<git, fs, arg, uivars>>

\* the environment grants read permission on a directory
Chmod ==
    /\ \E d \in fs.noperm : fs' = [fs EXCEPT !.noperm = @ \ {d}]
    /\ op' = [name |-> "chmod", path |-> <<>>, exc |-> "none"]
    /\ UNCHANGED <<git, arg, heap, nodes, uivars>>

NextTree == Build \/ ExpandPath \/ Chmod

SpecTree == InitTree /\ [][NextTree]_vars

\* ------------------------------------------------- InteractivePackageTree
Init ==
    /\ fs \in FileSystems
    /\ arg \in [path : RootPaths(fs), depth : 0..MaxDepth]
    /\ LET t == build_from_path(fs, arg.path, arg.depth)
       IN  /\ heap = t.heap
           /\ nodes = t.nodes
           /\ op = [name |-> "build_from_path", path |-> arg.path, exc |-> t.exc]
    /\ selected_node = 1
    /\ cursor_y = 1
    /\ exit_code = "QUIT_NOSAVE"
    /\ pc = "running"
    /\ result = NoResult
    /\ git = GitIdle

Move(r) ==
    /\ selected_node' = r.node
    /\ cursor_y' = r.y
    /\ pc' = IF r.err = "none" THEN pc ELSE "crashed"
    /\ UNCHANGED <<git, fs, arg, heap, nodes, op, exit_code, result>>

KeyUp == pc = "running" /\ Move(up(heap, selected_node, cursor_y))

KeyDown == pc = "running" /\ Move(down(heap, selected_node, cursor_y))

KeyRight ==
    /\ pc = "running"
    /\ heap' = right(heap, selected_node)
    /\ UNCHANGED <<git, fs, arg, nodes, op, uivars>>

KeyLeft ==
    /\ pc = "running"
    /\ heap' = left(heap, selected_node)
    /\ UNCHANGED <<git, fs, arg, nodes, op, uivars>>

KeyEnter ==
    /\ pc = "running"
    /\ heap' = enter(heap, selected_node)
    /\ UNCHANGED <<git, fs, arg, nodes, op, uivars>>

KeyCtrlC ==
    /\ pc = "running"
    /\ exit_code' = "QUIT_NOSAVE"
    /\ pc' = "exited"
    /\ UNCHANGED <<git, fs, arg, heap, nodes, op, selected_node, cursor_y, result>>

KeyCtrlS ==
    /\ pc = "running"
    /\ exit_code' = "QUIT_SAVE"
    /\ pc' = "exited"
    /\ UNCHANGED <<git, fs, arg, heap, nodes, op, selected_node, cursor_y, result>>

\* run, once app.run() has returned
RunReturn ==
    /\ pc = "exited"
    /\ result' = run_result(heap, exit_code)
    /\ pc' = "returned"
    /\ UNCHANGED <<git, fs, arg, heap, nodes, op, selected_node, cursor_y, exit_code>>

Next ==
    \/ KeyUp
    \/ KeyDown
    \/ KeyRight
    \/ KeyLeft
    \/ KeyEnter
    \/ KeyCtrlC
    \/ KeyCtrlS
    \/ RunReturn

Spec == Init /\ [][Next]_vars

\* ------------------------------------------------- get_changed_files
\* the call get_changed_files(project_root, head, base) in an environment
\* that fixes how Repo(), git diff and git ls-files end
InitGit ==
    /\ git \in [pc : {"open"}, head : {"", "HEAD"},
                repo : {"ok", "InvalidGitRepositoryError", "NoSuchPathError"},
                diff : GitOutcomes, ls : GitOutcomes,
                changed_files : {<<>>}, ret : {<<>>}, raised : {"none"}]
    /\ fs = EmptyFs
    /\ arg = [path |-> <<>>, depth |-> 0]
    /\ heap = <<>>
    /\ nodes = <<>>
    /\ op = NoOp
    /\ selected_node = None
    /\ cursor_y = 0
    /\ exit_code = "QUIT_NOSAVE"
    /\ pc = "git"
    /\ result = NoResult

GitRest == <<fs, arg, heap, nodes, op, selected_node, cursor_y, exit_code, pc, result>>

\* Repo(project_root, search_parent_directories=True)
GitOpen ==
    /\ git.pc = "open"
    /\ git' = IF git.repo = "ok" THEN [git EXCEPT !.pc = "diff"]
              ELSE [git EXCEPT !.pc = "done", !.ret = <<>>]
    /\ UNCHANGED GitRest

\* repo.git.diff and diff.splitlines()
GitDiff ==
    /\ git.pc = "diff"
    /\ git' = IF git.diff.err = "GitCommandError"
              THEN [git EXCEPT !.pc = "done", !.ret = <<>>]
              ELSE [git EXCEPT !.pc = IF git.head = "" THEN "ls_files" ELSE "return",
                               !.changed_files = splitlines(git.diff.out)]
    /\ UNCHANGED GitRest

\* repo.git.ls_files, outside every try
GitLsFiles ==
    /\ git.pc = "ls_files"
    /\ git' = IF git.ls.err = "GitCommandError"
              THEN [git EXCEPT !.pc = "done", !.raised = "GitCommandError"]
              ELSE [git EXCEPT !.pc = "return",
                               !.changed_files = @ \o splitlines(git.ls.out)]
    /\ UNCHANGED GitRest

GitReturn ==
    /\ git.pc = "return"
    /\ \E r \in UniquePaths(git.changed_files) :
          git' = [git EXCEPT !.pc = "done", !.ret = r]
    /\ UNCHANGED GitRest

NextGit == GitOpen \/ GitDiff \/ GitLsFiles \/ GitReturn

SpecGit == InitGit /\ [][NextGit]_vars

\* ====================================================== properties
Ids(h) == 1..Len(h)

\* the number of parent references from n up to the root
RECURSIVE Level(_, _)
Level(h, n) == IF h[n].parent = None THEN 0 ELSE 1 + Level(h, h[n].parent)

AfterBuild == op.name = "build_from_path"

\* C4: after build_from_path(root, depth) the nodes at level depth+1 have no
\* children, so that no node lies deeper than level depth+1.
C4_DescentBounded ==
    AfterBuild =>
        \A n \in Ids(heap) :
            /\ Level(heap, n) <= arg.depth + 1
            /\ Level(heap, n) = arg.depth + 1 => heap[n].children = <<>>

\* C5: right after build_from_path(root, depth) a node at level k is expanded
\* if and only if k <= depth.
C5_ExpandedIffWithinDepth ==
    AfterBuild =>
        \A n \in Ids(heap) : heap[n].expanded <=> Level(heap, n) <= arg.depth

C5_Witness ==
    /\ AfterBuild
    /\ arg.depth = 2
    /\ \E n, m \in Ids(heap) :
          /\ Level(heap, n) = 3 /\ ~heap[n].expanded
          /\ Level(heap, m) = 2 /\ heap[m].expanded

\* C6: expand_path raises NotFound for a path that is no key of the index and
\* NotADirectory for an indexed node that is no directory, and in both cases
\* leaves the tree as it was.
C6_ExpandPathErrors ==
    [][op'.name = "expand_path" =>
        /\ op'.path \notin DOMAIN nodes => op'.exc = "NotFound"
        /\ (op'.path \in DOMAIN nodes /\ ~heap[nodes[op'.path]].is_dir)
               => op'.exc = "NotADirectory"
        /\ op'.exc \in {"NotFound", "NotADirectory"} => (heap' = heap /\ nodes' = nodes)
      ]_vars

C6_Witness ==
    /\ op.name = "expand_path"
    /\ op.exc = "NotADirectory"
    /\ op.path \in DOMAIN nodes
    /\ Len(heap) = 1

\* C7: expand_path on a directory node of the tree that has no children adds
\* nodes only as children of that node, and changes no existing node but it.
C7_ExpandOnlyChildren ==
    [][(/\ op'.name = "expand_path"
        /\ op'.exc = "none"
        /\ heap[nodes[op'.path]].children = <<>>)
       => LET n == nodes[op'.path]
          IN  /\ \A k \in Ids(heap') \ Ids(heap) : heap'[k].parent = n
              /\ \A k \in Ids(heap) \ {n} : heap'[k] = heap[k]
      ]_vars

\* a node as seen through paths: the objects' places in the heap left out
View(h) ==
    [i \in Ids(h) |->
        [full_path |-> h[i].full_path,
         is_dir |-> h[i].is_dir,
         expanded |-> h[i].expanded,
         is_package |-> h[i].is_package,
         parent |-> IF h[i].parent = None THEN <<>> ELSE <<h[h[i].parent].full_path>>,
         children |-> [j \in 1..Len(h[i].children) |-> h[h[i].children[j]].full_path]]]

Readable(f) == [f EXCEPT !.noperm = {}]

\* path lies below an unreadable directory that is start or below start
BelowUnreadable(f, start, path) ==
    \E k \in Len(start)..(Len(path) - 1) : SubSeq(path, 1, k) \in f.noperm

\* the view of h without what lies below an unreadable directory
Pruned(f, start, h) ==
    LET kept == SelectSeq(View(h), LAMBDA r : ~BelowUnreadable(f, start, r.full_path))
    IN  [i \in 1..Len(kept) |->
            IF kept[i].full_path \in f.noperm /\ Len(kept[i].full_path) >= Len(start)
            THEN [kept[i] EXCEPT !.children = <<>>]
            ELSE kept[i]]

path_of(h, n) == h[n].full_path

\* n and its ancestors
RECURSIVE Chain(_, _)
Chain(h, n) == {n} \cup (IF h[n].parent = None THEN {} ELSE Chain(h, h[n].parent))

IsVisible(h, n) == \A a \in Chain(h, n) \ {n} : h[a].expanded

\* the pre-order walk from n as the sets of children define it: the children
\* of a node are taken as a set, least path first
RECURSIVE RefWalk(_, _, _)
RECURSIVE RefKids(_, _, _)
RefWalk(h, n, visible_only) ==
    <<n>> \o RefKids(h, IF visible_only /\ ~h[n].expanded THEN {} ELSE Range(h[n].children),
                     visible_only)

RefKids(h, S, visible_only) ==
    IF S = {} THEN <<>>
    ELSE LET c == CHOOSE x \in S : \A d \in S : ~PathLess(path_of(h, d), path_of(h, x))
         IN  RefWalk(h, c, visible_only) \o RefKids(h, S \ {c}, visible_only)

\* n or one of its ancestors has a visible sibling with a greater path
HasNextAbove(h, n) ==
    \E a \in Chain(h, n) :
        /\ h[a].parent # None
        /\ \E x \in Range(visible_children(h, h[a].parent)) :
              PathLess(path_of(h, a), path_of(h, x))

DownMoves(h, n) == visible_children(h, n) # <<>> \/ HasNextAbove(h, n)

\* C1: a move-down that changes the selection is undone by the move-up that
\* follows it, node and row; move-down changes the selection exactly when the
\* node has a visible child or a next sibling exists at it or above it, and
\* otherwise, as move-up at the root, changes neither node nor row.
C1_DownThenUp ==
    /\ [](pc = "running" =>
            LET d == down(heap, selected_node, cursor_y)
                u == up(heap, selected_node, cursor_y)
            IN  /\ (d.node # selected_node) <=> DownMoves(heap, selected_node)
                /\ ~DownMoves(heap, selected_node) => d.y = cursor_y
                /\ heap[selected_node].parent = None
                      => (u.node = selected_node /\ u.y = cursor_y))
    /\ [][(KeyDown /\ selected_node' # selected_node) =>
            up(heap', selected_node', cursor_y')
                = [err |-> "none", node |-> selected_node, y |-> cursor_y]
         ]_vars

\* the cursor has come down to a child of the root whose previous sibling
\* shows children
C1_Witness ==
    /\ pc = "running"
    /\ cursor_y >= 3
    /\ heap[selected_node].parent = 1
    /\ prev_sibling(heap, selected_node).node # None
    /\ visible_children(heap, prev_sibling(heap, selected_node).node) # <<>>

\* C2: after confirm the result holds the paths of exactly the nodes with
\* is_package set, collapsed ancestors or not, each once, in the order of the
\* full pre-order walk with siblings ascending by path.
C2_ConfirmCollectsMarked ==
    (pc = "returned" /\ exit_code = "QUIT_SAVE") =>
        LET walk == RefWalk(heap, 1, FALSE)
            marked == SelectSeq(walk, LAMBDA n : heap[n].is_package)
        IN  /\ ~result.is_none
            /\ result.packages = [i \in 1..Len(marked) |-> [full_path |-> path_of(heap, marked[i])]]
            /\ Range(walk) = Ids(heap)
            /\ Len(result.packages) = Cardinality({n \in Ids(heap) : heap[n].is_package})

C2_Witness ==
    /\ pc = "returned"
    /\ exit_code = "QUIT_SAVE"
    /\ Len(result.packages) >= 2
    /\ \E n \in Ids(heap) : heap[n].is_package /\ ~IsVisible(heap, n)
    /\ \E n \in Ids(heap) : ~heap[n].is_package

\* C3: the exit code is QUIT_NOSAVE until confirm sets it, and run returns a
\* list only after confirm: after cancel it returns None whatever is marked.
C3_ResultOnlyOnConfirm ==
    /\ [](pc = "running" => exit_code = "QUIT_NOSAVE")
    /\ [](pc # "returned" => result.is_none)
    /\ [](pc = "returned" => (result.is_none <=> exit_code = "QUIT_NOSAVE"))
    /\ [][exit_code' # exit_code => KeyCtrlS]_vars
    /\ [][KeyCtrlC => exit_code' = "QUIT_NOSAVE"]_vars

C3_Witness ==
    /\ pc = "returned"
    /\ exit_code = "QUIT_NOSAVE"
    /\ result.is_none
    /\ \E n \in Ids(heap) : heap[n].is_package

IsBelow(h, x, n) == n \in Chain(h, x) \ {x}

\* C10: collapsing the selected node while it is expanded removes from the
\* visible traversal exactly the nodes below it and keeps the others in
\* order, leaves the full traversal as it was, and expanding it again gives
\* the visible traversal back.
C10_CollapseHidesDescendants ==
    [][(KeyLeft /\ heap[selected_node].expanded) =>
        LET v == file_tree_iterator(heap, TRUE)
        IN  /\ file_tree_iterator(heap', TRUE)
                  = SelectSeq(v, LAMBDA x : ~IsBelow(heap, x, selected_node))
            /\ file_tree_iterator(heap', FALSE) = file_tree_iterator(heap, FALSE)
            /\ \A x \in Ids(heap) \ {selected_node} : heap'[x].expanded = heap[x].expanded
            /\ file_tree_iterator(right(heap', selected_node'), TRUE) = v
      ]_vars

\* the root is collapsed over a child that is expanded and has children
C10_Witness ==
    /\ selected_node = 1
    /\ ~heap[1].expanded
    /\ \E n \in Range(heap[1].children) : heap[n].expanded /\ heap[n].children # <<>>

\* C11: when no node is marked, toggle-select on the selected node N makes a
\* confirm return exactly one SelectedPackage, with N's path and the tag
\* derived from that path.
C11_ToggleThenConfirm ==
    /\ [][(KeyEnter /\ \A n \in Ids(heap) : ~heap[n].is_package) =>
            LET r == run_result(heap', "QUIT_SAVE")
            IN  /\ ~r.is_none
                /\ Len(r.packages) = 1
                /\ r.packages[1].full_path = path_of(heap, selected_node)
                /\ tags(r.packages[1])
                      = <<file_to_module_path(path_of(heap, selected_node))>>
         ]_vars
    /\ []((/\ pc = "returned"
           /\ exit_code = "QUIT_SAVE"
           /\ Cardinality({n \in Ids(heap) : heap[n].is_package}) = 1)
          => \E n \in Ids(heap) :
                /\ heap[n].is_package
                /\ result.packages = <<[full_path |-> path_of(heap, n)]>>)

\* no package file on disk, the cursor was moved off the root, one node is
\* marked and the session was confirmed
C11_Witness ==
    /\ pc = "returned"
    /\ exit_code = "QUIT_SAVE"
    /\ fs.files = {}
    /\ selected_node # 1
    /\ heap[selected_node].is_package
    /\ Len(result.packages) = 1

\* the sibling of n with the greatest path below n's, and the one with the
\* least path above it, among the visible children of n's parent
SiblingsOf(h, n) == Range(visible_children(h, h[n].parent))

IsPrevSibling(h, n, x) ==
    IF x = None
    THEN \A y \in SiblingsOf(h, n) : ~PathLess(path_of(h, y), path_of(h, n))
    ELSE /\ x \in SiblingsOf(h, n)
         /\ PathLess(path_of(h, x), path_of(h, n))
         /\ \A y \in SiblingsOf(h, n) :
               PathLess(path_of(h, y), path_of(h, n)) => ~PathLess(path_of(h, x), path_of(h, y))

IsNextSibling(h, n, x) ==
    IF x = None
    THEN \A y \in SiblingsOf(h, n) : ~PathLess(path_of(h, n), path_of(h, y))
    ELSE /\ x \in SiblingsOf(h, n)
         /\ PathLess(path_of(h, n), path_of(h, x))
         /\ \A y \in SiblingsOf(h, n) :
               PathLess(path_of(h, n), path_of(h, y)) => ~PathLess(path_of(h, y), path_of(h, x))

\* C13: in a session on a tree from build_from_path no key handler raises:
\* on every node whose parent is expanded prev_sibling and next_sibling find
\* the node among the parent's sorted visible children and return the sibling
\* next to it in ascending order of path.
C13_SiblingLookupSucceeds ==
    /\ pc # "crashed"
    /\ \A n \in Ids(heap) :
          (heap[n].parent # None /\ heap[heap[n].parent].expanded) =>
              /\ list_index(heap, parent_sorted_children(heap, n), n, 1).at >= 1
              /\ parent_sorted_children(heap, n)
                    [list_index(heap, parent_sorted_children(heap, n), n, 1).at] = n
              /\ prev_sibling(heap, n).err = "none"
              /\ next_sibling(heap, n).err = "none"
              /\ IsPrevSibling(heap, n, prev_sibling(heap, n).node)
              /\ IsNextSibling(heap, n, next_sibling(heap, n).node)

\* the cursor is on a node with a previous sibling that was appended after it
C13_Witness ==
    /\ pc = "running"
    /\ selected_node # 1
    /\ prev_sibling(heap, selected_node).node # None
    /\ prev_sibling(heap, selected_node).node > selected_node

\* node n with every field but the two flags
Structure(h, n) ==
    [full_path |-> h[n].full_path, is_dir |-> h[n].is_dir,
     parent |-> h[n].parent, children |-> h[n].children]

\* nothing changes but the flags of the selected node
OnlySelectedFlags ==
    /\ Len(heap') = Len(heap)
    /\ \A n \in Ids(heap) \ {selected_node} : heap'[n] = heap[n]
    /\ Structure(heap', selected_node) = Structure(heap, selected_node)
    /\ UNCHANGED <<selected_node, cursor_y, nodes, exit_code, pc, result>>

\* C15: expand sets expanded on the selected node, collapse clears it and
\* toggle-select flips is_package; each leaves the other flag, every other
\* node, the structure, the selected node and the row counter as they were.
C15_FlagOnly ==
    /\ [][KeyRight => /\ OnlySelectedFlags
                      /\ heap'[selected_node].expanded
                      /\ heap'[selected_node].is_package = heap[selected_node].is_package
         ]_vars
    /\ [][KeyLeft => /\ OnlySelectedFlags
                     /\ ~heap'[selected_node].expanded
                     /\ heap'[selected_node].is_package = heap[selected_node].is_package
         ]_vars
    /\ [][KeyEnter => /\ OnlySelectedFlags
                      /\ heap'[selected_node].is_package = ~heap[selected_node].is_package
                      /\ heap'[selected_node].expanded = heap[selected_node].expanded
         ]_vars

\* a node that was built collapsed and has children still collapsed is
\* expanded, its children are not
C15_Witness ==
    /\ arg.depth = 0
    /\ selected_node # 1
    /\ heap[selected_node].expanded
    /\ heap[selected_node].children # <<>>
    /\ \A c \in Range(heap[selected_node].children) : ~heap[c].expanded

\* the place of n in sequence s, 0 when it is not there
PlaceIn(s, n) == IF \E i \in 1..Len(s) : s[i] = n
                 THEN CHOOSE i \in 1..Len(s) : s[i] = n
                 ELSE 0

\* C17: move-down selects the node after the selected node in the visible
\* traversal and move-up the node before it; at the last and at the first
\* node they select nothing new.
C17_MovesFollowTraversal ==
    pc = "running" =>
        LET v == file_tree_iterator(heap, TRUE)
            i == PlaceIn(v, selected_node)
        IN  /\ i >= 1
            /\ down(heap, selected_node, cursor_y).node
                  = IF i < Len(v) THEN v[i + 1] ELSE selected_node
            /\ up(heap, selected_node, cursor_y).node
                  = IF i > 1 THEN v[i - 1] ELSE selected_node

\* the cursor is on a node whose parent lists it before a sibling of lesser
\* path, with a node after it in the traversal
C17_Witness ==
    /\ pc = "running"
    /\ selected_node # 1
    /\ \E x \in Ids(heap) :
          /\ heap[x].parent = heap[selected_node].parent
          /\ x > selected_node
          /\ PathLess(path_of(heap, x), path_of(heap, selected_node))
    /\ PlaceIn(file_tree_iterator(heap, TRUE), selected_node) >= 3

\* C18: the row counter is the place of the selected node in the visible
\* traversal, counted from 1; it is at least 1 and at most the number of
\* visible nodes.
C18_RowIsPlace ==
    LET v == file_tree_iterator(heap, TRUE)
    IN  /\ cursor_y = 1 + (PlaceIn(v, selected_node) - 1)
        /\ cursor_y >= 1
        /\ cursor_y <= Len(v)

\* the cursor came down past a sibling branch to row 4 and stands on a
\* collapsed node
C18_Witness ==
    /\ cursor_y = 4
    /\ heap[selected_node].parent = 1
    /\ ~heap[selected_node].expanded

\* C19: the selected node is a node of the tree all of whose proper
\* ancestors are expanded.
C19_SelectedVisible ==
    /\ selected_node \in Ids(heap)
    /\ IsVisible(heap, selected_node)

\* the cursor is on a node below the root that was built expanded and that it
\* has collapsed over its children
C19_Witness ==
    /\ selected_node # 1
    /\ ~heap[selected_node].expanded
    /\ heap[selected_node].children # <<>>
    /\ arg.depth >= 1

\* C14: after build_from_path and any expand_path calls no two children of a
\* node have the same path.
C14_NoDuplicateSiblings ==
    \A n \in Ids(heap) :
        \A i, j \in 1..Len(heap[n].children) :
            i # j => path_of(heap, heap[n].children[i]) # path_of(heap, heap[n].children[j])

\* some node is listed twice or more under one path
HasTwins(h) ==
    \E n \in Ids(h) : \E i, j \in 1..Len(h[n].children) :
        i < j /\ path_of(h, h[n].children[i]) = path_of(h, h[n].children[j])

\* the parent references from n reach the root within the number of nodes
RECURSIVE ReachesRoot(_, _, _)
ReachesRoot(h, n, fuel) ==
    IF n = 1 THEN TRUE
    ELSE IF fuel = 0 \/ h[n].parent = None THEN FALSE
    ELSE ReachesRoot(h, h[n].parent, fuel - 1)

\* C16: the root has no parent, a node listed among the children of a node
\* has that node as its parent, and the parent references of every node lead
\* to the root without repeating a node.
C16_ParentsConsistent ==
    heap # <<>> =>
        /\ heap[1].parent = None
        /\ \A n \in Ids(heap) : \A c \in Range(heap[n].children) :
              c \in Ids(heap) /\ heap[c].parent = n
        /\ \A n \in Ids(heap) : ReachesRoot(heap, n, Len(heap))
        /\ \A n \in Ids(heap) \ {1} :
              Cardinality({i \in 1..Len(heap[heap[n].parent].children) :
                              heap[heap[n].parent].children[i] = n}) = 1

\* a repeated expand_path has appended children again, grandchildren included
C16_Witness ==
    /\ op.name = "expand_path"
    /\ op.exc = "none"
    /\ HasTwins(heap)
    /\ \E n \in Ids(heap) : Level(heap, n) = 2

\* the nodes that the children lists reach from the root
Reachable(h) == Range(file_tree_iterator(h, FALSE))

\* C20: every key of the index is the path of the node it maps to, every
\* node reachable from the root is the node stored under its own path, and
\* the index holds no node that is not reachable.
C20_IndexConsistent ==
    heap # <<>> =>
        /\ \A k \in DOMAIN nodes : path_of(heap, nodes[k]) = k
        /\ \A n \in Reachable(heap) :
              path_of(heap, n) \in DOMAIN nodes /\ nodes[path_of(heap, n)] = n
        /\ \A k \in DOMAIN nodes : nodes[k] \in Reachable(heap)

\* a git step of the call has failed
GitFailed ==
    \/ git.repo # "ok"
    \/ git.diff.err # "none"
    \/ git.head = "" /\ git.ls.err # "none"

\* C12: get_changed_files raises nothing, and returns the empty list when
\* opening the repository, the diff or the listing of untracked files fails.
C12_NeverRaises ==
    git.pc = "done" =>
        /\ git.raised = "none"
        /\ GitFailed => git.ret = <<>>
====
